---- MODULE Spec2Model ----
(***************************************************************************)
(* AstroVision backend: the discovery-analysis pipeline of src/server.js   *)
(* (POST /api/analyze-discovery, getCalibrationResults,                    *)
(* performChangeDetection) as a state machine.  Every await of the code    *)
(* is a suspension point: an action ends where the code awaits and the     *)
(* next action is the settlement of the awaited promise.  The external     *)
(* services (nova.astrometry.net, skyview, Jimp's readers) answer          *)
(* nondeterministically.                                                   *)
(***************************************************************************)
EXTENDS Integers, Sequences, FiniteSets, TLC

\* ------------------------------------------------------------------ values
\* for (let i = 0; i < 20; i++)
MaxAttempts == 20

\* JavaScript's undefined / a property that the response does not carry
Undefined == "undefined"

\* login.data of the plate solver: a session token, or none when the service
\* rejects the API key (status "error", HTTP 200)
LoginResponses ==
  {[session |-> "session-A"], [session |-> "session-B"], [session |-> Undefined]}

\* up.data of the plate solver: a submission id, or none on a service-level
\* rejection (status "error", HTTP 200)
UploadResponses == {[subid |-> "sub-1"], [subid |-> "sub-2"], [subid |-> Undefined]}

\* response.data of GET /api/submissions/<subid>: the jobs of the submission
\* and the calibrations completed so far (pairs <<job, calibration id>>)
StatusResponses ==
  { [jobs |-> << >>,               job_calibrations |-> << >>],
    [jobs |-> <<"job-1">>,          job_calibrations |-> << >>],
    [jobs |-> <<"job-1">>,          job_calibrations |-> << <<"job-1", "cal-1">> >>],
    [jobs |-> <<"job-2">>,          job_calibrations |-> << <<"job-2", "cal-2">> >>],
    [jobs |-> <<"job-1", "job-2">>, job_calibrations |-> << <<"job-2", "cal-2">> >>],
    [jobs |-> <<"null", "job-2">>,  job_calibrations |-> << <<"job-2", "cal-2">> >>] }

\* calRes.data of GET /api/jobs/<job>/calibration/: ra and dec in degrees,
\* held here in units of 1e-5 degree (180.12340, 45.67890; 12.34565, -1.23455)
Calibrations ==
  { [ra |-> 18012340, dec |-> 4567890],
    [ra |-> 1234565,  dec |-> -123455] }

NoCalibration == [ra |-> 0, dec |-> 0]

\* response before the first status query has resolved
NoStatus == [jobs |-> << >>, job_calibrations |-> << >>]

\* the counts pixelmatch can return for two 500x500 bitmaps
DiffCounts == {0, 1, 10, 1499, 1500, 1501, 2000, 250000}

\* the outcomes of Jimp.read: the image, a failed fetch (URL input only), or
\* bytes that are no image
UserReadOutcomes == {"ok", "DecodeError"}
NasaReadOutcomes == {"ok", "FetchError", "DecodeError"}

\* ------------------------------------------------------------------- state
VARIABLES
  pc,            \* where the route handler is suspended
  session,       \* const session = login.data.session
  subId,         \* the subId argument of getCalibrationResults
  statusUrl,     \* const statusUrl
  response,      \* response.data of the latest status query
  i,             \* the loop variable of getCalibrationResults
  jobId,         \* const jobId = response.data.jobs[0]
  calibration,   \* const calibration = await getCalibrationResults(...)
  nasaUrl,       \* const nasaUrl
  userRead,      \* the promise Jimp.read(userBuffer)
  nasaRead,      \* the promise Jimp.read(nasaUrl)
  caught,        \* the error caught inside performChangeDetection
  diffCount,     \* const diffCount
  sent,          \* the responses sent with res.json, in order
  \* history of the requests issued, for the properties
  loginRequests, uploadRequests, uploadSession, statusQueries, sleeps,
  calRequests, refFetches, comparisons, completedReports, completedAt,
  failedStage,
  queried        \* the status URLs queried so far

vars == << pc, session, subId, statusUrl, i, response, jobId, calibration,
           nasaUrl, userRead, nasaRead, caught, diffCount, sent, loginRequests,
           uploadRequests, uploadSession, statusQueries, sleeps, calRequests,
           refFetches, comparisons, completedReports, completedAt, failedStage,
           queried >>

history == << loginRequests, uploadRequests, uploadSession, statusQueries,
              sleeps, calRequests, refFetches, comparisons, completedReports,
              completedAt, failedStage, queried >>

\* ------------------------------------------- state outside the one pipeline run
VARIABLES
  other,           \* the locals of a second invocation of the handler, suspended
                   \* at an await while the first one runs
  communityPosts,  \* let communityPosts = []
  userProfiles,    \* let userProfiles = {}
  lastRequest,     \* route and status of the latest legacy request, for the properties
  storesBefore,    \* communityPosts and userProfiles as that request found them
  daoRows,         \* the Supabase rows a like toggle reads and updates
  likeRequests,    \* the like requests in flight, with the row each has read
  toggles,         \* like requests completed with success, per target and user
  rows,            \* the argument of buildNestedComments
  nested           \* its map and return value

legacyVars == << communityPosts, userProfiles, lastRequest, storesBefore >>
daoVars    == << daoRows, likeRequests, toggles >>
nestedVars == << rows, nested >>

\* the users that send requests, the like targets (one posts row, one comments
\* row)
Users  == {"u1", "u2"}
Tables == {"posts", "comments"}

\* the locals of an invocation that has not started
IdleLocals ==
  [pc |-> "idle", session |-> Undefined, subId |-> Undefined, statusUrl |-> << >>,
   i |-> 0, response |-> NoStatus, jobId |-> Undefined,
   calibration |-> NoCalibration, nasaUrl |-> Undefined,
   userRead |-> "unstarted", nasaRead |-> "unstarted", caught |-> "none",
   diffCount |-> 0, sent |-> << >>, loginRequests |-> 0, uploadRequests |-> 0,
   uploadSession |-> Undefined, statusQueries |-> 0, sleeps |-> 0,
   calRequests |-> 0, refFetches |-> 0, comparisons |-> 0,
   completedReports |-> 0, completedAt |-> 0, failedStage |-> "none",
   queried |-> {}]

\* no second invocation
NoOtherInvocation == other = IdleLocals

\* the legacy stores as the module creates them, no request yet
LegacyIdle ==
  /\ communityPosts = << >>
  /\ userProfiles = << >>
  /\ lastRequest = [route |-> "none", status |-> 0]
  /\ storesBefore = << << >>, << >> >>

\* freshly inserted rows (likes: 0, liked_by: []), no like request
DaoIdle ==
  /\ daoRows = [t \in Tables |-> [likes |-> 0, liked_by |-> << >>]]
  /\ likeRequests = [t \in Tables |-> [u \in Users |->
                        [pc |-> "none", likes |-> 0, liked_by |-> << >>, status |-> 0]]]
  /\ toggles = [t \in Tables |-> [u \in Users |-> 0]]

\* buildNestedComments not called
NestedIdle ==
  /\ rows = << >>
  /\ nested = [built |-> FALSE, roots |-> << >>, replies |-> << >>]

PipelineInit ==
  /\ pc = "idle"
  /\ session = Undefined
  /\ subId = Undefined
  /\ statusUrl = << >>
  /\ i = 0
  /\ response = NoStatus
  /\ jobId = Undefined
  /\ calibration = NoCalibration
  /\ nasaUrl = Undefined
  /\ userRead = "unstarted"
  /\ nasaRead = "unstarted"
  /\ caught = "none"
  /\ diffCount = 0
  /\ sent = << >>
  /\ loginRequests = 0
  /\ uploadRequests = 0
  /\ uploadSession = Undefined
  /\ statusQueries = 0
  /\ sleeps = 0
  /\ calRequests = 0
  /\ refFetches = 0
  /\ comparisons = 0
  /\ completedReports = 0
  /\ completedAt = 0
  /\ failedStage = "none"
  /\ queried = {}

Init ==
  /\ PipelineInit
  /\ NoOtherInvocation
  /\ LegacyIdle
  /\ DaoIdle
  /\ NestedIdle

\* ----------------------------------------------------------- pure helpers
\* mutation of HasCompletedCalibration: the test reads jobs instead of
\* job_calibrations
HasCompletedCalibrationByJobs(data) == Len(data.jobs) > 0

\* if (response.data.job_calibrations && response.data.job_calibrations.length > 0)
HasCompletedCalibration(data) == Len(data.job_calibrations) > 0

\* `http://nova.astrometry.net/api/submissions/${subId}`
StatusUrl(sub) == <<"http://nova.astrometry.net/api/submissions/", sub>>

\* response.data.jobs[0]
FirstJob(data) == IF Len(data.jobs) > 0 THEN data.jobs[1] ELSE Undefined

\* mutation of LoopContinues: i <= 20
LoopContinuesOffByOne(n) == n <= MaxAttempts

\* the loop condition i < 20
LoopContinues(n) == n < MaxAttempts

\* mutation of toFixed4: the digits after the fourth are cut off
toFixed4Truncates(x) == x \div 10

\* Number.prototype.toFixed(4) of a value held in units of 1e-5 degree: the
\* integer n of 1e-4 units closest to it, the larger n on a tie; the decimal
\* string is the one that writes n
toFixed4(x) == (x + 5) \div 10

\* `https://skyview.gsfc.nasa.gov/cgi-bin/images?survey=sdssi&position=${ra},${dec}&size=0.1&pixels=500`
NasaUrl(cal) ==
  [survey |-> "sdssi", position |-> <<cal.ra, cal.dec>>, size |-> "0.1", pixels |-> 500]

\* mutation of isAnomaly: diffCount >= 1500
isAnomalyInclusive(d) == d >= 1500

\* const isAnomaly = diffCount > 1500
isAnomaly(d) == d > 1500

\* isAnomaly ? `ANOMALY: Found ${diffCount} pixel variances.` : 'Region stable.'
Discovery(d) ==
  IF isAnomaly(d)
    THEN [text |-> "ANOMALY: Found ${diffCount} pixel variances.", args |-> <<d>>]
    ELSE [text |-> "Region stable.", args |-> << >>]

\* isAnomaly ? 'SUPERNOVA' : 'GALAXY'
Type(d) == IF isAnomaly(d) THEN "SUPERNOVA" ELSE "GALAXY"

\* the body of res.json({ coords, historicalImage, discovery, type, rawScore })
ResultBody(cal, url, d) ==
  [kind |-> "result", status |-> 200,
   coords |-> [ra |-> toFixed4(cal.ra), dec |-> toFixed4(cal.dec)],
   historicalImage |-> url,
   discovery |-> Discovery(d),
   type |-> Type(d),
   rawScore |-> d]

\* the body of res.status(500).json({ error: e.message })
ErrorBody(message) == [kind |-> "error", status |-> 500, error |-> message]

\* e.message of the errors the pipeline can throw
LoginFailure       == "login request failed"
UploadFailure      == "upload request failed"
StatusFailure      == "status request failed"
CalibrationFailure == "calibration request failed"
SolveTimeout       == "Astrometry solving timed out."
BadRequestBody     == "imageBase64 is not a string"

\* mutation of RouteCatch: the catch ends the handler without answering
RouteCatchSilent(message) ==
  /\ pc' = "done"
  /\ UNCHANGED sent

\* the catch of the route handler: } catch (e) { res.status(500).json(...) }
RouteCatch(message) ==
  /\ sent' = Append(sent, ErrorBody(message))
  /\ pc' = "done"

\* the tail of the route handler once performChangeDetection has returned d
RespondWithResult(d) ==
  /\ diffCount' = d
  /\ sent' = Append(sent, ResultBody(calibration, nasaUrl, d))
  /\ pc' = "done"

\* ------------------------------------------------- POST /api/analyze-discovery
\* The request arrives.  Buffer.from(req.body.imageBase64, 'base64') throws a
\* TypeError when the body carries no imageBase64 string; otherwise the login
\* request is issued and awaited.
AnalyzeDiscovery ==
  /\ pc = "idle"
  /\ \E hasImage \in BOOLEAN :
       IF hasImage
         THEN /\ loginRequests' = loginRequests + 1
              /\ pc' = "login"
              /\ UNCHANGED sent
         ELSE /\ RouteCatch(BadRequestBody)
              /\ UNCHANGED loginRequests
  /\ UNCHANGED << session, subId, statusUrl, queried, i, jobId, response, calibration, nasaUrl, userRead,
                  nasaRead, caught, diffCount, uploadRequests, uploadSession,
                  statusQueries, sleeps, calRequests, refFetches, comparisons,
                  completedReports, completedAt, failedStage >>

\* await axios.post(.../api/login) resolves: session = login.data.session, the
\* form is built with that session and the upload request is issued.
LoginReturns ==
  /\ pc = "login"
  /\ \E login \in LoginResponses :
       /\ session' = login.session
       /\ uploadSession' = login.session
  /\ uploadRequests' = uploadRequests + 1
  /\ pc' = "upload"
  /\ UNCHANGED << subId, statusUrl, queried, i, jobId, response, calibration, nasaUrl, userRead, nasaRead,
                  caught, diffCount, sent, loginRequests, statusQueries, sleeps,
                  calRequests, refFetches, comparisons, completedReports,
                  completedAt, failedStage >>

\* await axios.post(.../api/login) rejects (transport error, non-2xx status).
LoginFails ==
  /\ pc = "login"
  /\ failedStage' = "login"
  /\ RouteCatch(LoginFailure)
  /\ UNCHANGED << session, subId, statusUrl, queried, i, jobId, response, calibration, nasaUrl, userRead,
                  nasaRead, caught, diffCount, loginRequests, uploadRequests,
                  uploadSession, statusQueries, sleeps, calRequests, refFetches,
                  comparisons, completedReports, completedAt >>

\* await axios.post(.../api/upload) resolves: getCalibrationResults(up.data.subid)
\* is entered, i = 0, and the first status query is issued.
UploadReturns ==
  /\ pc = "upload"
  /\ \E up \in UploadResponses :
       /\ subId' = up.subid
       /\ statusUrl' = StatusUrl(up.subid)
       /\ queried' = queried \cup {StatusUrl(up.subid)}
  /\ i' = 0
  /\ statusQueries' = statusQueries + 1
  /\ pc' = "status"
  /\ UNCHANGED << session, jobId, response, calibration, nasaUrl, userRead, nasaRead,
                  caught, diffCount, sent, loginRequests, uploadRequests,
                  uploadSession, sleeps, calRequests, refFetches, comparisons,
                  completedReports, completedAt, failedStage >>

\* await axios.post(.../api/upload) rejects.
UploadFails ==
  /\ pc = "upload"
  /\ failedStage' = "upload"
  /\ RouteCatch(UploadFailure)
  /\ UNCHANGED << session, subId, statusUrl, queried, i, jobId, response, calibration, nasaUrl, userRead,
                  nasaRead, caught, diffCount, loginRequests, uploadRequests,
                  uploadSession, statusQueries, sleeps, calRequests, refFetches,
                  comparisons, completedReports, completedAt >>

\* ----------------------------------------------------- getCalibrationResults
\* what the properties call a status response that reports a completed
\* calibration job (a non-empty job_calibrations list)
ReportsCompletedJob(data) == data.job_calibrations # << >>

\* mutation of StatusReturns: no sleep after the last attempt, the timeout is
\* thrown at once
StatusReturnsSkipsLastSleep ==
  /\ pc = "status"
  /\ \E data \in StatusResponses :
       /\ response' = data
       /\ IF HasCompletedCalibration(data)
            THEN /\ jobId' = FirstJob(data)
                 /\ calRequests' = calRequests + 1
                 /\ pc' = "calibration"
                 /\ UNCHANGED << sleeps, sent >>
            ELSE IF LoopContinues(i + 1)
                   THEN /\ sleeps' = sleeps + 1
                        /\ pc' = "sleep"
                        /\ UNCHANGED << jobId, calRequests, sent >>
                   ELSE /\ RouteCatch(SolveTimeout)
                        /\ UNCHANGED << jobId, calRequests, sleeps >>
       /\ completedReports' = completedReports + (IF ReportsCompletedJob(data) THEN 1 ELSE 0)
       /\ completedAt' = IF ReportsCompletedJob(data) /\ completedAt = 0
                           THEN statusQueries ELSE completedAt
  /\ UNCHANGED << session, subId, statusUrl, queried, i, calibration, nasaUrl,
                  userRead, nasaRead, caught, diffCount, loginRequests,
                  uploadRequests, uploadSession, statusQueries, refFetches,
                  comparisons, failedStage >>

\* await axios.get(statusUrl) resolves.  With a completed calibration the
\* calibration of jobs[0] is requested; otherwise the attempt is logged and the
\* 3000 ms timer is started.
StatusReturns ==
  /\ pc = "status"
  /\ \E data \in StatusResponses :
       /\ response' = data
       /\ IF HasCompletedCalibration(data)
            THEN /\ jobId' = FirstJob(data)
                 /\ calRequests' = calRequests + 1
                 /\ pc' = "calibration"
                 /\ UNCHANGED sleeps
            ELSE /\ sleeps' = sleeps + 1
                 /\ pc' = "sleep"
                 /\ UNCHANGED << jobId, calRequests >>
       /\ completedReports' = completedReports + (IF ReportsCompletedJob(data) THEN 1 ELSE 0)
       /\ completedAt' = IF ReportsCompletedJob(data) /\ completedAt = 0
                           THEN statusQueries ELSE completedAt
  /\ UNCHANGED << session, subId, statusUrl, queried, i, calibration, nasaUrl, userRead, nasaRead,
                  caught, diffCount, sent, loginRequests, uploadRequests,
                  uploadSession, statusQueries, refFetches, comparisons,
                  failedStage >>

\* mutation of StatusFails: the rejection is swallowed inside the loop and the
\* query is tried again after the sleep
StatusFailsRetries ==
  /\ pc = "status"
  /\ failedStage' = "status"
  /\ sleeps' = sleeps + 1
  /\ pc' = "sleep"
  /\ UNCHANGED << session, subId, statusUrl, queried, i, jobId, response, calibration, nasaUrl, userRead,
                  nasaRead, caught, diffCount, sent, loginRequests,
                  uploadRequests, uploadSession, statusQueries, calRequests,
                  refFetches, comparisons, completedReports, completedAt >>

\* await axios.get(statusUrl) rejects: the error leaves getCalibrationResults
\* and is caught by the route handler.
StatusFails ==
  /\ pc = "status"
  /\ failedStage' = "status"
  /\ RouteCatch(StatusFailure)
  /\ UNCHANGED << session, subId, statusUrl, queried, i, jobId, response, calibration, nasaUrl, userRead,
                  nasaRead, caught, diffCount, loginRequests, uploadRequests,
                  uploadSession, statusQueries, sleeps, calRequests, refFetches,
                  comparisons, completedReports, completedAt >>

\* The 3000 ms timer fires: i++, then either the next status query is issued
\* or the loop ends and 'Astrometry solving timed out.' is thrown.
SleepEnds ==
  /\ pc = "sleep"
  /\ i' = i + 1
  /\ IF LoopContinues(i + 1)
       THEN /\ statusQueries' = statusQueries + 1
            /\ queried' = queried \cup {statusUrl}
            /\ pc' = "status"
            /\ UNCHANGED sent
       ELSE /\ RouteCatch(SolveTimeout)
            /\ UNCHANGED << statusQueries, queried >>
  /\ UNCHANGED << session, subId, statusUrl, jobId, response, calibration, nasaUrl, userRead,
                  nasaRead, caught, diffCount, loginRequests, uploadRequests,
                  uploadSession, sleeps, calRequests, refFetches, comparisons,
                  completedReports, completedAt, failedStage >>

\* mutation of CalibrationReturns: the return is missing, so the loop goes on
\* to its log line and sleep
CalibrationReturnsKeepsPolling ==
  /\ pc = "calibration"
  /\ \E cal \in Calibrations : calibration' = cal
  /\ sleeps' = sleeps + 1
  /\ pc' = "sleep"
  /\ UNCHANGED << session, subId, statusUrl, queried, i, jobId, response, nasaUrl, userRead, nasaRead, caught,
                  diffCount, sent, loginRequests, uploadRequests, uploadSession,
                  statusQueries, calRequests, refFetches, comparisons,
                  completedReports, completedAt, failedStage >>

\* await axios.get(.../calibration/) resolves: getCalibrationResults returns
\* calRes.data, the route builds nasaUrl and calls performChangeDetection,
\* which starts Jimp.read(userBuffer) and Jimp.read(nasaUrl) and awaits
\* Promise.all of the two.
CalibrationReturns ==
  /\ pc = "calibration"
  /\ \E cal \in Calibrations :
       /\ calibration' = cal
       /\ nasaUrl' = NasaUrl(cal)
  /\ userRead' = "pending"
  /\ nasaRead' = "pending"
  /\ refFetches' = refFetches + 1
  /\ pc' = "detect"
  /\ UNCHANGED << session, subId, statusUrl, queried, i, jobId, response, caught, diffCount, sent,
                  loginRequests, uploadRequests, uploadSession, statusQueries,
                  sleeps, calRequests, comparisons, completedReports,
                  completedAt, failedStage >>

\* await axios.get(.../calibration/) rejects.
CalibrationFails ==
  /\ pc = "calibration"
  /\ failedStage' = "calibration"
  /\ RouteCatch(CalibrationFailure)
  /\ UNCHANGED << session, subId, statusUrl, queried, i, jobId, response, calibration, nasaUrl, userRead,
                  nasaRead, caught, diffCount, loginRequests, uploadRequests,
                  uploadSession, statusQueries, sleeps, calRequests, refFetches,
                  comparisons, completedReports, completedAt >>

\* ---------------------------------------------------- performChangeDetection
\* Jimp.read(userBuffer) settles: the decoded image, or bytes that are no image.
UserReadSettles ==
  /\ userRead = "pending"
  /\ \E outcome \in UserReadOutcomes : userRead' = outcome
  /\ UNCHANGED << pc, session, subId, statusUrl, i, jobId, response, calibration, nasaUrl, nasaRead,
                  caught, diffCount, sent, history >>

\* mutation of NasaReadSettles: a failed fetch of the URL is tried again
NasaReadSettlesRetries ==
  /\ nasaRead = "pending"
  /\ \E outcome \in NasaReadOutcomes :
       IF outcome = "FetchError" /\ refFetches < 2
         THEN /\ refFetches' = refFetches + 1
              /\ UNCHANGED nasaRead
         ELSE /\ nasaRead' = outcome
              /\ UNCHANGED refFetches
  /\ UNCHANGED << pc, session, subId, statusUrl, queried, i, jobId, response, calibration, nasaUrl, userRead,
                  caught, diffCount, sent, loginRequests, uploadRequests,
                  uploadSession, statusQueries, sleeps, calRequests,
                  comparisons, completedReports, completedAt, failedStage >>

\* Jimp.read(nasaUrl) settles: the image, a failed fetch of the URL, or a
\* fetched body that is no image.
NasaReadSettles ==
  /\ nasaRead = "pending"
  /\ \E outcome \in NasaReadOutcomes : nasaRead' = outcome
  /\ UNCHANGED << pc, session, subId, statusUrl, i, jobId, response, calibration, nasaUrl, userRead,
                  caught, diffCount, sent, history >>

\* mutation of AllFulfilled: Promise.any / Promise.race in place of Promise.all
AnyFulfilled == userRead = "ok" \/ nasaRead = "ok"

\* Promise.all([...]) fulfils when every promise has fulfilled
AllFulfilled == userRead = "ok" /\ nasaRead = "ok"

\* the rejections Promise.all([...]) can reject with
Rejections ==
  (IF userRead = "DecodeError" THEN {"DecodeError: user image"} ELSE {})
    \cup (IF nasaRead = "DecodeError" THEN {"DecodeError: reference image"} ELSE {})
    \cup (IF nasaRead = "FetchError" THEN {"FetchError: reference image"} ELSE {})

\* mutation of CatchComparisonError: the catch rethrows, and the route
\* handler's catch answers 500
CatchComparisonErrorRethrows(e) ==
  /\ caught' = e
  /\ RouteCatch(e)
  /\ UNCHANGED diffCount

\* catch (e) { console.error('Comparison Error:', e.message); return 0; }
\* and the route handler goes on with diffCount = 0
CatchComparisonError(e) ==
  /\ caught' = e
  /\ RespondWithResult(0)

\* Promise.all fulfilled: both images are resized to 500x500 and greyscaled and
\* pixelmatch counts the differing pixels; a throw of resize, greyscale or
\* pixelmatch lands in the catch like a rejected read.
CompareImages ==
  /\ pc = "detect"
  /\ AllFulfilled
  /\ comparisons' = comparisons + 1
  /\ \/ \E d \in DiffCounts :
          /\ RespondWithResult(d)
          /\ UNCHANGED caught
     \/ CatchComparisonError("CompareError")
  /\ UNCHANGED << session, subId, statusUrl, queried, i, jobId, response, calibration, nasaUrl, userRead,
                  nasaRead, loginRequests, uploadRequests, uploadSession,
                  statusQueries, sleeps, calRequests, refFetches,
                  completedReports, completedAt, failedStage >>

\* Promise.all rejected with the rejection of one of the reads: the catch
\* returns 0 without any comparison.
ReadRejected ==
  /\ pc = "detect"
  /\ \E e \in Rejections : CatchComparisonError(e)
  /\ UNCHANGED << session, subId, statusUrl, i, jobId, response, calibration, nasaUrl, userRead,
                  nasaRead, history >>

\* ----------------------------------------------------------- specification
\* the state that a pipeline run does not touch
outsideRun == << other, legacyVars, daoVars, nestedVars >>

Next ==
  \/ AnalyzeDiscovery /\ UNCHANGED outsideRun
  \/ LoginReturns /\ UNCHANGED outsideRun
  \/ LoginFails /\ UNCHANGED outsideRun
  \/ UploadReturns /\ UNCHANGED outsideRun
  \/ UploadFails /\ UNCHANGED outsideRun
  \/ StatusReturns /\ UNCHANGED outsideRun
  \/ StatusFails /\ UNCHANGED outsideRun
  \/ SleepEnds /\ UNCHANGED outsideRun
  \/ CalibrationReturns /\ UNCHANGED outsideRun
  \/ CalibrationFails /\ UNCHANGED outsideRun
  \/ UserReadSettles /\ UNCHANGED outsideRun
  \/ NasaReadSettles /\ UNCHANGED outsideRun
  \/ CompareImages /\ UNCHANGED outsideRun
  \/ ReadRejected /\ UNCHANGED outsideRun

Spec == Init /\ [][Next]_vars

\* ------------------------------------------------------------- properties
Done == pc = "done"

\* the single response of the invocation is the result with score 0
RegionStableResult ==
  /\ Len(sent) = 1
  /\ sent[1].kind = "result"
  /\ sent[1].rawScore = 0
  /\ sent[1].type = "GALAXY"
  /\ sent[1].discovery = [text |-> "Region stable.", args |-> << >>]

\* the single response of the invocation is the error with this message
ErrorResponse(message) ==
  /\ Len(sent) = 1
  /\ sent[1].kind = "error"
  /\ sent[1].error = message

\* C1: when no status response reports a completed calibration job, the poll
\* ends after exactly 20 status queries (there is never a 21st) and the
\* invocation fails with the solve-timeout error, with no calibration.
C1_TimeoutAfterTwentyQueries ==
  /\ statusQueries <= 20
  /\ (Done /\ failedStage = "none" /\ statusQueries > 0 /\ completedReports = 0)
       => /\ statusQueries = 20
          /\ ErrorResponse("Astrometry solving timed out.")
          /\ calRequests = 0
          /\ calibration = NoCalibration
  /\ (sent # << >> /\ sent[1].kind = "error" /\ sent[1].error = "Astrometry solving timed out.")
       => /\ statusQueries = 20
          /\ completedReports = 0

C1_Witness ==
  /\ Done
  /\ statusQueries = 20
  /\ completedReports = 0
  /\ failedStage = "none"
  /\ ErrorResponse("Astrometry solving timed out.")

\* C2: when the k-th status query is the first that reports a completed
\* calibration job, exactly k status queries are ever issued and k-1 sleeps
\* taken: the calibration is requested once and the poll is left.
C2_StopsAtFirstCompletedReport ==
  completedAt # 0 =>
    /\ completedAt \in 1..20
    /\ statusQueries = completedAt
    /\ sleeps = completedAt - 1
    /\ calRequests = 1
    /\ pc \in {"calibration", "detect", "done"}

C2_Witness ==
  /\ completedAt = 20
  /\ Done
  /\ sent # << >>
  /\ sent[1].kind = "result"

\* C3: a calibration is requested, a calibration result held and a result
\* response sent only after some status response has reported a completed
\* calibration job.
C3_CalibrationOnlyAfterCompletedReport ==
  /\ calRequests > 0 => completedReports > 0
  /\ pc \in {"calibration", "detect"} => completedReports > 0
  /\ calibration # NoCalibration => completedReports > 0
  /\ \A k \in 1..Len(sent) : sent[k].kind = "result" => completedReports > 0

C3_Witness ==
  /\ Done
  /\ calibration # NoCalibration
  /\ sent # << >>
  /\ sent[1].kind = "result"
  /\ completedReports > 0

\* C4: a result carries the difference count d as rawScore; it is SUPERNOVA
\* with the anomaly message holding d when d > 1500 and GALAXY with
\* 'Region stable.' otherwise (1500 and 0 give GALAXY, 1501 gives SUPERNOVA).
C4_ClassificationByThreshold ==
  \A k \in 1..Len(sent) :
    sent[k].kind = "result" =>
      /\ sent[k].rawScore = diffCount
      /\ sent[k].rawScore \in 0..250000
      /\ IF sent[k].rawScore > 1500
           THEN /\ sent[k].type = "SUPERNOVA"
                /\ sent[k].discovery =
                     [text |-> "ANOMALY: Found ${diffCount} pixel variances.",
                      args |-> <<sent[k].rawScore>>]
           ELSE /\ sent[k].type = "GALAXY"
                /\ sent[k].discovery = [text |-> "Region stable.", args |-> << >>]

C4_Witness ==
  /\ Done
  /\ comparisons = 1
  /\ caught = "none"
  /\ sent # << >>
  /\ sent[1].kind = "result"
  /\ sent[1].rawScore = 1500
  /\ sent[1].type = "GALAXY"

\* C5: when decoding either image, or normalizing or comparing them, throws,
\* the invocation answers with a normal result: rawScore 0, GALAXY,
\* 'Region stable.', and no error.
C5_ComparisonFailureIsSoft ==
  (Done /\ caught \in {"DecodeError: user image", "DecodeError: reference image",
                       "CompareError"})
    => RegionStableResult

C5_Witness ==
  /\ Done
  /\ caught = "DecodeError: user image"
  /\ completedReports > 0
  /\ RegionStableResult

\* e.message of the request failure of each stage
FailureMessage(stage) ==
  CASE stage = "login"       -> LoginFailure
    [] stage = "upload"      -> UploadFailure
    [] stage = "status"      -> StatusFailure
    [] stage = "calibration" -> CalibrationFailure

\* C6: when the login request, the upload request, a status query or the
\* calibration request fails, the invocation is over: the one response is the
\* error of that failure, the failed request was the last request of its kind
\* (no retry), no request of a later stage was issued and nothing was scored.
C6_RequestFailureAborts ==
  failedStage # "none" =>
    /\ Done
    /\ ErrorResponse(FailureMessage(failedStage))
    /\ loginRequests = 1
    /\ comparisons = 0
    /\ refFetches = 0
    /\ userRead = "unstarted" /\ nasaRead = "unstarted"
    /\ calibration = NoCalibration
    /\ failedStage = "login" =>
         uploadRequests = 0 /\ statusQueries = 0 /\ calRequests = 0
    /\ failedStage = "upload" =>
         uploadRequests = 1 /\ statusQueries = 0 /\ calRequests = 0
    /\ failedStage = "status" =>
         uploadRequests = 1 /\ statusQueries = i + 1 /\ sleeps = i /\ calRequests = 0
    /\ failedStage = "calibration" =>
         uploadRequests = 1 /\ statusQueries = i + 1 /\ sleeps = i /\ calRequests = 1

C6_Witness ==
  /\ Done
  /\ failedStage = "status"
  /\ statusQueries = 5
  /\ ErrorResponse(StatusFailure)

\* the login was answered without a session token
LoginRejected ==
  /\ loginRequests = 1
  /\ pc # "login"
  /\ failedStage # "login"
  /\ session = Undefined

\* C7: when the login response carries no session token, the invocation fails
\* with an authentication error at the login stage and the upload request is
\* never issued.
C7_RejectedLoginStopsBeforeUpload ==
  LoginRejected =>
    /\ uploadRequests = 0
    /\ Done => (Len(sent) = 1 /\ sent[1].kind = "error")

\* the upload was answered without a submission id
UploadRejected ==
  /\ uploadRequests = 1
  /\ pc # "upload"
  /\ failedStage # "upload"
  /\ subId = Undefined

\* C8: when the upload response carries no submission id, the invocation fails
\* with an upload error at the submit stage and no submission-status query is
\* ever issued.
C8_RejectedUploadStopsBeforePolling ==
  UploadRejected =>
    /\ statusQueries = 0
    /\ Done => (Len(sent) = 1 /\ sent[1].kind = "error")

\* C9 as stated: when the fetch of the reference image fails, the invocation
\* answers with an error, not a result, and the fetch is not tried again.
C9_ReferenceFetchFailurePropagates ==
  (Done /\ nasaRead = "FetchError") =>
    /\ refFetches = 1
    /\ Len(sent) = 1
    /\ sent[1].kind = "error"

\* C9, amended: when the fetch of the reference image fails, the failure is
\* caught inside performChangeDetection: the fetch is not tried again, nothing
\* is compared, and the invocation answers with a normal result of rawScore 0,
\* GALAXY, 'Region stable.'.
C9_ReferenceFetchFailureIsSoft ==
  (Done /\ nasaRead = "FetchError") =>
    /\ refFetches = 1
    /\ comparisons = 0
    /\ caught \in {"FetchError: reference image", "DecodeError: user image"}
    /\ RegionStableResult

C9_Witness ==
  /\ Done
  /\ nasaRead = "FetchError"
  /\ userRead = "ok"
  /\ caught = "FetchError: reference image"
  /\ RegionStableResult

\* C10: the pixel comparison starts only when both reads have fulfilled,
\* whatever the order in which they settle; with a read rejected or still
\* pending no comparison is ever started.
C10_CompareOnlyAfterBothReads ==
  /\ comparisons <= 1
  /\ comparisons > 0 => (userRead = "ok" /\ nasaRead = "ok")
  /\ (userRead = "DecodeError" \/ nasaRead \in {"FetchError", "DecodeError"})
       => comparisons = 0

C10_Witness ==
  /\ comparisons = 1
  /\ userRead = "ok"
  /\ nasaRead = "ok"
  /\ Done

\* the awaited requests, timers and reads of an invocation all settle in the
\* end (the premise of C11); the event loop then runs the continuation
FairSpec == Spec /\ WF_vars(Next)

\* C11: an invocation whose awaited requests all settle sends exactly one
\* response in the end, a result or an error: never two, and the handler is
\* over exactly when the one response has been sent.
C11_ExactlyOneResponse ==
  /\ [](Len(sent) <= 1)
  /\ [](Done <=> Len(sent) = 1)
  /\ [](\A k \in 1..Len(sent) : sent[k].kind \in {"result", "error"})
  /\ (pc # "idle") ~> Done

C11_Witness ==
  /\ Done
  /\ Len(sent) = 1
  /\ sent[1].kind = "error"
  /\ failedStage = "calibration"

PollEnded == statusQueries > 0 /\ pc \in {"calibration", "detect", "done"}

\* C15 as stated: sleeps lie only between attempts, so a poll that issued k
\* status queries took k-1 sleeps, also when it ends in the timeout.
C15_SleepsOnlyBetweenAttempts ==
  PollEnded => sleeps = statusQueries - 1

\* C15, amended: the loop sleeps after every status query that reports no
\* completed calibration, the 20th included.  A poll that ends on a completed
\* report or on a failed query at query k took k-1 sleeps; a poll that ends in
\* the timeout took 20 queries and 20 sleeps, the error being thrown after the
\* last sleep.
C15_SleepsAfterEveryUnsuccessfulQuery ==
  /\ sleeps <= statusQueries
  /\ PollEnded =>
       IF sent # << >> /\ sent[1].kind = "error" /\ sent[1].error = SolveTimeout
         THEN statusQueries = 20 /\ sleeps = 20
         ELSE sleeps = statusQueries - 1
  /\ pc = "sleep" => sleeps = statusQueries
  /\ pc = "status" => sleeps = statusQueries - 1

C15_Witness ==
  /\ Done
  /\ ErrorResponse(SolveTimeout)
  /\ statusQueries = 20
  /\ sleeps = 20

\* the jobs that the latest status response reports as calibrated
CalibratedJobs == { response.job_calibrations[k][1] : k \in 1..Len(response.job_calibrations) }

\* C14: the job whose calibration is requested is one of the jobs that the
\* status response reports as calibrated.
C14_RequestedJobIsCalibrated ==
  calRequests > 0 => jobId \in CalibratedJobs

\* ------------------------------------------------------- buildNestedComments
\* the longest list of comment rows tried
MaxRows == 3

\* ids of the rows of one post; parent_id 0 stands for null (a top-level
\* comment), MaxRows + 1 for a parent that is not among the rows
RowIds    == 1..MaxRows
ParentIds == 0..(MaxRows + 1)

\* the lists of rows with distinct ids and any parent_id
RowLists ==
  UNION { { r \in [1..n -> [id : RowIds, parent_id : ParentIds]] :
              \A a, b \in 1..n : a # b => r[a].id # r[b].id } : n \in 0..MaxRows }

\* rows.forEach(c => { map[c.id] = { ...c, replies: [] } }): the replies list
\* of every row, empty
EmptyMap(rs) == [id \in { rs[k].id : k \in 1..Len(rs) } |-> << >>]

\* the second forEach, from row k on: a row with a parent_id that is truthy and
\* a key of map is pushed to the replies of that parent, any other row to roots
RECURSIVE LinkRows(_, _, _)
LinkRows(rs, k, acc) ==
  IF k > Len(rs) THEN acc
  ELSE LET c == rs[k] IN
       IF c.parent_id # 0 /\ c.parent_id \in DOMAIN acc.replies
         THEN LinkRows(rs, k + 1,
                [acc EXCEPT !.replies[c.parent_id] = Append(@, c.id)])
         ELSE LinkRows(rs, k + 1, [acc EXCEPT !.roots = Append(@, c.id)])

\* buildNestedComments(rows): the roots and, per row, its replies; a row
\* object is named by its id, as the map of the code holds one object per id
buildNestedComments(rs) ==
  LinkRows(rs, 1, [built |-> TRUE, roots |-> << >>, replies |-> EmptyMap(rs)])

\* GET /api/dao/posts/:id/comments: the rows selected for the post are nested
GetDaoComments ==
  /\ ~nested.built
  /\ nested' = buildNestedComments(rows)
  /\ UNCHANGED rows

NestedInit ==
  /\ rows \in RowLists
  /\ nested = [built |-> FALSE, roots |-> << >>, replies |-> << >>]
  /\ PipelineInit
  /\ NoOtherInvocation
  /\ LegacyIdle
  /\ DaoIdle

NestedNext ==
  GetDaoComments /\ UNCHANGED << vars, other, legacyVars, daoVars >>

NestedSpec == NestedInit /\ [][NestedNext]_nestedVars

\* ids held in a list of ids, and how often one occurs in it
Ids(list) == { list[k] : k \in 1..Len(list) }
Occurrences(list, id) == Cardinality({ k \in 1..Len(list) : list[k] = id })

\* the rows that can be reached from the roots through replies
RECURSIVE ReachableFrom(_)
ReachableFrom(S) ==
  LET more == S \cup UNION { Ids(nested.replies[id]) : id \in S }
  IN IF more = S THEN S ELSE ReachableFrom(more)

RowIdsOf(rs) == { rs[k].id : k \in 1..Len(rs) }

\* every row occurs once in all: in the replies of its parent when the parent
\* is among the rows, among the roots otherwise
PlacedOnce ==
  \A k \in 1..Len(rows) :
    LET c == rows[k] IN
      /\ Occurrences(nested.roots, c.id)
           = (IF c.parent_id \in RowIdsOf(rows) THEN 0 ELSE 1)
      /\ \A p \in RowIdsOf(rows) :
           Occurrences(nested.replies[p], c.id) = (IF p = c.parent_id THEN 1 ELSE 0)

\* C18: for every list of rows with distinct ids and any parent_id values the
\* result is a forest: every row occurs exactly once, under its parent when the
\* parent is among the rows and as a root otherwise, and every row can be
\* reached from a root.
C18_NestedCommentsFormForest ==
  nested.built =>
    /\ PlacedOnce
    /\ ReachableFrom(Ids(nested.roots)) = RowIdsOf(rows)

\* ------------------------------ POST /api/dao/posts/:id/like, /comments/:id/like
\* the like requests that one user completes on one target
MaxToggles == 2

\* likedBy.includes(userId)
Includes(list, x) == \E k \in 1..Len(list) : list[k] = x

\* likedBy.filter(id => id !== userId)
RECURSIVE Without(_, _)
Without(list, x) ==
  IF list = << >> THEN << >>
  ELSE IF list[1] = x THEN Without(Tail(list), x)
  ELSE <<list[1]>> \o Without(Tail(list), x)

\* the object passed to update(): likes and liked_by computed from the row
\* that the select returned
ToggledRow(post, userId) ==
  IF Includes(post.liked_by, userId)
    THEN [likes |-> post.likes - 1, liked_by |-> Without(post.liked_by, userId)]
    ELSE [likes |-> post.likes + 1, liked_by |-> Append(post.liked_by, userId)]

\* The request of a user arrives and its select('liked_by, likes') is executed:
\* the handler holds the row as it is now.
DaoLikeSelect(t, u) ==
  /\ likeRequests[t][u].pc = "none"
  /\ toggles[t][u] < MaxToggles
  /\ likeRequests' = [likeRequests EXCEPT ![t][u] =
                        [pc |-> "selected", likes |-> daoRows[t].likes,
                         liked_by |-> daoRows[t].liked_by, status |-> 0]]
  /\ UNCHANGED << daoRows, toggles >>

\* The select answers with an error: if (fetchErr) throw fetchErr, status 500.
DaoLikeSelectFails(t, u) ==
  /\ likeRequests[t][u].pc = "none"
  /\ toggles[t][u] < MaxToggles
  /\ likeRequests' = [likeRequests EXCEPT ![t][u].status = 500]
  /\ UNCHANGED << daoRows, toggles >>

\* The update of the request is executed: the row is overwritten with the
\* values computed from the row read earlier, and the request answers 200.
DaoLikeUpdate(t, u) ==
  /\ likeRequests[t][u].pc = "selected"
  /\ daoRows' = [daoRows EXCEPT ![t] = ToggledRow(likeRequests[t][u], u)]
  /\ toggles' = [toggles EXCEPT ![t][u] = @ + 1]
  /\ likeRequests' = [likeRequests EXCEPT ![t][u] =
                        [pc |-> "none", likes |-> 0, liked_by |-> << >>, status |-> 200]]

\* The update answers with an error: if (error) throw error, status 500.
DaoLikeUpdateFails(t, u) ==
  /\ likeRequests[t][u].pc = "selected"
  /\ likeRequests' = [likeRequests EXCEPT ![t][u] =
                        [pc |-> "none", likes |-> 0, liked_by |-> << >>, status |-> 500]]
  /\ UNCHANGED << daoRows, toggles >>

LikesInit ==
  /\ DaoIdle
  /\ PipelineInit
  /\ NoOtherInvocation
  /\ LegacyIdle
  /\ NestedIdle

outsideDao == << vars, other, legacyVars, nestedVars >>

LikesNext ==
  \/ \E t \in Tables, u \in Users : DaoLikeSelect(t, u) /\ UNCHANGED outsideDao
  \/ \E t \in Tables, u \in Users : DaoLikeSelectFails(t, u) /\ UNCHANGED outsideDao
  \/ \E t \in Tables, u \in Users : DaoLikeUpdate(t, u) /\ UNCHANGED outsideDao
  \/ \E t \in Tables, u \in Users : DaoLikeUpdateFails(t, u) /\ UNCHANGED outsideDao

LikesSpec == LikesInit /\ [][LikesNext]_daoVars

\* no like request is in flight
LikesQuiet == \A t \in Tables, u \in Users : likeRequests[t][u].pc = "none"

\* C16: once the like requests of distinct users on a post (or a comment) have
\* completed, in whatever interleaving, liked_by holds exactly the users with
\* an odd number of completed toggles, each once, and likes is its size.
C16_NoToggleLost ==
  LikesQuiet =>
    \A t \in Tables :
      /\ Ids(daoRows[t].liked_by) = { u \in Users : toggles[t][u] % 2 = 1 }
      /\ \A u \in Users : Occurrences(daoRows[t].liked_by, u) <= 1
      /\ daoRows[t].likes = Len(daoRows[t].liked_by)

\* ------------------------------ POST /api/posts, POST /api/posts/:id/comments
MaxPosts    == 2
MaxComments == 3

Texts     == {"", "text"}
Images    == {"null", "image"}
UserIds   == Users \cup {Undefined}
PostIds   == 1..(MaxPosts + 1)
\* 0 stands for a request without parentId
CommentParentIds == 0..(MaxComments + 1)

\* the profile that getOrCreateUser stores for a new userId
NewProfile == [postsCount |-> 0, commentsCount |-> 0]

\* userProfiles after getOrCreateUser(userId)
getOrCreateUser(profiles, userId) ==
  IF userId \in DOMAIN profiles THEN profiles ELSE profiles @@ (userId :> NewProfile)

\* the comments stored under a list of comments, replies included
RECURSIVE CountComments(_)
CountComments(comments) ==
  IF comments = << >> THEN 0
  ELSE 1 + CountComments(Head(comments).replies) + CountComments(Tail(comments))

RECURSIVE CountPostComments(_)
CountPostComments(posts) ==
  IF posts = << >> THEN 0
  ELSE CountComments(Head(posts).comments) + CountPostComments(Tail(posts))

\* ids are drawn from the clock and Math.random(): a new id differs from the
\* ids in the store
FreshPostId    == Len(communityPosts) + 1
FreshCommentId == CountPostComments(communityPosts) + 1

\* communityPosts.find(p => p.id === req.params.id): its index, 0 when absent
FindPost(id) ==
  IF \E k \in 1..Len(communityPosts) : communityPosts[k].id = id
    THEN CHOOSE k \in 1..Len(communityPosts) :
           /\ communityPosts[k].id = id
           /\ \A j \in 1..(k - 1) : communityPosts[j].id # id
    ELSE 0

\* addReply: depth-first search for parentId; the comment found gets
\* newComment pushed onto its replies
RECURSIVE addReply(_, _, _)
addReply(comments, parentId, newComment) ==
  IF comments = << >> THEN [found |-> FALSE, comments |-> << >>]
  ELSE LET c == Head(comments) IN
    IF c.id = parentId
      THEN [found |-> TRUE,
            comments |-> << [c EXCEPT !.replies = Append(@, newComment)] >> \o Tail(comments)]
      ELSE LET inner == addReply(c.replies, parentId, newComment) IN
        IF inner.found
          THEN [found |-> TRUE,
                comments |-> << [c EXCEPT !.replies = inner.comments] >> \o Tail(comments)]
          ELSE LET rest == addReply(Tail(comments), parentId, newComment) IN
                 [found |-> rest.found, comments |-> << c >> \o rest.comments]

\* POST /api/posts
CreateLegacyPost(text, image, userId) ==
  /\ storesBefore' = << communityPosts, userProfiles >>
  /\ IF (text = "" /\ image = "null") \/ userId = Undefined
       THEN /\ lastRequest' = [route |-> "post", status |-> 400]
            /\ UNCHANGED << communityPosts, userProfiles >>
       ELSE /\ Len(communityPosts) < MaxPosts
            /\ LET profiles == getOrCreateUser(userProfiles, userId)
                   newPost  == [id |-> FreshPostId, userId |-> userId, comments |-> << >>]
               IN /\ communityPosts' = << newPost >> \o communityPosts
                  /\ userProfiles' = [profiles EXCEPT ![userId].postsCount = @ + 1]
            /\ lastRequest' = [route |-> "post", status |-> 200]

\* POST /api/posts/:id/comments
AddLegacyComment(id, text, userId, parentId) ==
  /\ storesBefore' = << communityPosts, userProfiles >>
  /\ LET post == FindPost(id) IN
     IF text = "" \/ userId = Undefined
       THEN /\ lastRequest' = [route |-> "comment", status |-> 400]
            /\ UNCHANGED << communityPosts, userProfiles >>
     ELSE IF post = 0
       THEN /\ lastRequest' = [route |-> "comment", status |-> 404]
            /\ UNCHANGED << communityPosts, userProfiles >>
     ELSE
       LET profiles   == getOrCreateUser(userProfiles, userId)
           newComment == [id |-> FreshCommentId, userId |-> userId, replies |-> << >>]
           reply      == addReply(communityPosts[post].comments, parentId, newComment)
       IN IF parentId # 0 /\ ~reply.found
            THEN /\ userProfiles' = profiles
                 /\ lastRequest' = [route |-> "comment", status |-> 404]
                 /\ UNCHANGED communityPosts
            ELSE /\ CountPostComments(communityPosts) < MaxComments
                 /\ communityPosts' =
                      [communityPosts EXCEPT ![post].comments =
                         IF parentId # 0 THEN reply.comments ELSE Append(@, newComment)]
                 /\ userProfiles' = [profiles EXCEPT ![userId].commentsCount = @ + 1]
                 /\ lastRequest' = [route |-> "comment", status |-> 200]

LegacyInit ==
  /\ LegacyIdle
  /\ PipelineInit
  /\ NoOtherInvocation
  /\ DaoIdle
  /\ NestedIdle

outsideLegacy == << vars, other, daoVars, nestedVars >>

LegacyNext ==
  \/ \E text \in Texts, image \in Images, userId \in UserIds :
       CreateLegacyPost(text, image, userId) /\ UNCHANGED outsideLegacy
  \/ \E id \in PostIds, text \in Texts, userId \in UserIds, parentId \in CommentParentIds :
       AddLegacyComment(id, text, userId, parentId) /\ UNCHANGED outsideLegacy

LegacySpec == LegacyInit /\ [][LegacyNext]_legacyVars

\* the latest request was a comment creation answered with 400 or 404
CommentRejected ==
  /\ lastRequest.route = "comment"
  /\ lastRequest.status \in {400, 404}

\* C17: a comment-creation request rejected with 400 or 404 leaves
\* communityPosts and userProfiles as it found them.
C17_RejectedCommentChangesNothing ==
  CommentRejected => << communityPosts, userProfiles >> = storesBefore

\* ------------------------------------------ two invocations of the handler
\* the status queries one invocation may see unanswered by a calibration
MaxSleeps == 1

\* the locals of the invocation that is running
Locals ==
  [pc |-> pc, session |-> session, subId |-> subId, statusUrl |-> statusUrl,
   i |-> i, response |-> response, jobId |-> jobId,
   calibration |-> calibration, nasaUrl |-> nasaUrl, userRead |-> userRead,
   nasaRead |-> nasaRead, caught |-> caught, diffCount |-> diffCount,
   sent |-> sent, loginRequests |-> loginRequests,
   uploadRequests |-> uploadRequests, uploadSession |-> uploadSession,
   statusQueries |-> statusQueries, sleeps |-> sleeps,
   calRequests |-> calRequests, refFetches |-> refFetches,
   comparisons |-> comparisons, completedReports |-> completedReports,
   completedAt |-> completedAt, failedStage |-> failedStage,
   queried |-> queried]

\* mutation of Switch: statusUrl is a variable of the module, shared by the
\* invocations, instead of a const of each call of getCalibrationResults
SwitchSharesStatusUrl ==
  /\ other' = [Locals EXCEPT !.statusUrl = other.statusUrl]
  /\ pc' = other.pc
  /\ session' = other.session
  /\ subId' = other.subId
  /\ i' = other.i
  /\ response' = other.response
  /\ jobId' = other.jobId
  /\ calibration' = other.calibration
  /\ nasaUrl' = other.nasaUrl
  /\ userRead' = other.userRead
  /\ nasaRead' = other.nasaRead
  /\ caught' = other.caught
  /\ diffCount' = other.diffCount
  /\ sent' = other.sent
  /\ loginRequests' = other.loginRequests
  /\ uploadRequests' = other.uploadRequests
  /\ uploadSession' = other.uploadSession
  /\ statusQueries' = other.statusQueries
  /\ sleeps' = other.sleeps
  /\ calRequests' = other.calRequests
  /\ refFetches' = other.refFetches
  /\ comparisons' = other.comparisons
  /\ completedReports' = other.completedReports
  /\ completedAt' = other.completedAt
  /\ failedStage' = other.failedStage
  /\ queried' = other.queried
  /\ UNCHANGED statusUrl

\* The running invocation is suspended at its await and the event loop goes on
\* with the other invocation of the handler: every local of the handler and of
\* the functions it has called belongs to the invocation.
Switch ==
  /\ other' = Locals
  /\ pc' = other.pc
  /\ session' = other.session
  /\ subId' = other.subId
  /\ statusUrl' = other.statusUrl
  /\ i' = other.i
  /\ response' = other.response
  /\ jobId' = other.jobId
  /\ calibration' = other.calibration
  /\ nasaUrl' = other.nasaUrl
  /\ userRead' = other.userRead
  /\ nasaRead' = other.nasaRead
  /\ caught' = other.caught
  /\ diffCount' = other.diffCount
  /\ sent' = other.sent
  /\ loginRequests' = other.loginRequests
  /\ uploadRequests' = other.uploadRequests
  /\ uploadSession' = other.uploadSession
  /\ statusQueries' = other.statusQueries
  /\ sleeps' = other.sleeps
  /\ calRequests' = other.calRequests
  /\ refFetches' = other.refFetches
  /\ comparisons' = other.comparisons
  /\ completedReports' = other.completedReports
  /\ completedAt' = other.completedAt
  /\ failedStage' = other.failedStage
  /\ queried' = other.queried

\* nova.astrometry.net answers each login with a token that it has not issued
\* to the other invocation
ServiceToken == IF other.session = "session-A" THEN "session-B" ELSE "session-A"

\* and creates one submission for the upload of each session
ServiceSubmission(token) ==
  IF token = "session-A" THEN "sub-1"
  ELSE IF token = "session-B" THEN "sub-2"
  ELSE Undefined

\* the status it reports for a submission: sub-1 is solved by job-1, sub-2 by
\* job-2, and no other submission exists
ServiceStatus(url) ==
  IF url = StatusUrl("sub-1")
    THEN { [jobs |-> << >>,      job_calibrations |-> << >>],
           [jobs |-> <<"job-1">>, job_calibrations |-> << >>],
           [jobs |-> <<"job-1">>, job_calibrations |-> << <<"job-1", "cal-1">> >>] }
  ELSE IF url = StatusUrl("sub-2")
    THEN { [jobs |-> << >>,      job_calibrations |-> << >>],
           [jobs |-> <<"job-2">>, job_calibrations |-> << <<"job-2", "cal-2">> >>] }
  ELSE {}

\* the calibration of each job
ServiceCalibration(job) ==
  IF job = "job-1" THEN [ra |-> 18012340, dec |-> 4567890]
  ELSE [ra |-> 1234565, dec |-> -123455]

\* the sky position that the image of a submission solves to
SubmissionCalibration(sub) ==
  IF sub = "sub-1" THEN ServiceCalibration("job-1") ELSE ServiceCalibration("job-2")

\* the pixel difference between the image of a submission and its reference
SubmissionScore(sub) == IF sub = "sub-1" THEN 10 ELSE 2000

concurrentVars == << vars, other >>

outsideRuns == << legacyVars, daoVars, nestedVars >>

ConcurrentNext ==
  \/ AnalyzeDiscovery /\ UNCHANGED << other, outsideRuns >>
  \/ LoginReturns /\ session' \in {Undefined, ServiceToken}
       /\ UNCHANGED << other, outsideRuns >>
  \/ LoginFails /\ UNCHANGED << other, outsideRuns >>
  \/ UploadReturns /\ subId' \in {Undefined, ServiceSubmission(session)}
       /\ UNCHANGED << other, outsideRuns >>
  \/ UploadFails /\ UNCHANGED << other, outsideRuns >>
  \/ StatusReturns /\ response' \in ServiceStatus(statusUrl) /\ sleeps' <= MaxSleeps
       /\ UNCHANGED << other, outsideRuns >>
  \/ StatusFails /\ UNCHANGED << other, outsideRuns >>
  \/ SleepEnds /\ UNCHANGED << other, outsideRuns >>
  \/ CalibrationReturns /\ calibration' = ServiceCalibration(jobId)
       /\ UNCHANGED << other, outsideRuns >>
  \/ CalibrationFails /\ UNCHANGED << other, outsideRuns >>
  \/ UserReadSettles /\ UNCHANGED << other, outsideRuns >>
  \/ NasaReadSettles /\ UNCHANGED << other, outsideRuns >>
  \/ CompareImages /\ diffCount' \in {0, SubmissionScore(subId)}
       /\ UNCHANGED << other, outsideRuns >>
  \/ ReadRejected /\ UNCHANGED << other, outsideRuns >>
  \/ Switch /\ UNCHANGED outsideRuns

ConcurrentSpec == Init /\ [][ConcurrentNext]_concurrentVars

\* an invocation with locals l has used only what the service gave to it
UsesOwnResources(l) ==
  /\ l.uploadRequests > 0 => l.uploadSession = l.session
  /\ l.queried \subseteq {StatusUrl(l.subId)}
  /\ l.statusQueries > 0 => l.queried = {StatusUrl(l.subId)}
  /\ \A k \in 1..Len(l.sent) :
       l.sent[k].kind = "result" =>
         /\ l.sent[k].coords = [ra  |-> toFixed4(SubmissionCalibration(l.subId).ra),
                                dec |-> toFixed4(SubmissionCalibration(l.subId).dec)]
         /\ l.sent[k].historicalImage = NasaUrl(SubmissionCalibration(l.subId))
         /\ l.sent[k].rawScore \in {0, SubmissionScore(l.subId)}

\* C12: in every interleaving of two invocations each one uploads with the
\* token of its own login, polls the submission of its own upload and answers
\* with the coordinates and score of its own submission, the two never hold
\* the same token or submission, and communityPosts and userProfiles stay as
\* the module created them.
C12_InvocationsAreSelfContained ==
  /\ UsesOwnResources(Locals)
  /\ UsesOwnResources(other)
  /\ session # Undefined => session # other.session
  /\ subId # Undefined => subId # other.subId
  /\ communityPosts = << >>
  /\ userProfiles = << >>

\* both invocations have polled while the other was suspended and both have
\* answered with a result
C12_Witness ==
  /\ pc = "done"
  /\ other.pc = "done"
  /\ sleeps = 1
  /\ other.sleeps = 1
  /\ Len(sent) = 1
  /\ Len(other.sent) = 1
  /\ sent[1].kind = "result"
  /\ other.sent[1].kind = "result"
  /\ sent[1].coords # other.sent[1].coords

====
